---------------------------- MODULE Spec2Model ----------------------------
(***************************************************************************)
(* Model of ObservationProcessor/HribHabitat_csv-ndjson.py: the batch      *)
(* pipeline (folder loop, row loop with its try/except), the tile cache,   *)
(* the 3x3 neighbourhood assembly and the slope/aspect estimator.          *)
(*                                                                         *)
(* Numbers.  An elevation is held as an integer count of 1/256 m, the      *)
(* resolution of the terrarium encoding, so sums and differences of        *)
(* elevations are exact as they are in the program's doubles.  Angles are  *)
(* fixed-point integers: 1e-7 degree inside atan, 1e-6 degree for the      *)
(* aspect, then hundredths (slope) and tenths (aspect) after round().      *)
(* A float whose sign of zero matters is a record [neg, mag].              *)
(***************************************************************************)
EXTENDS Integers, Sequences, FiniteSets, TLC

\* ------------------------------------------------------------ constants
TILE_SIZE == 256
ZOOM_LEVEL == 15
\* decode_terrarium divides the blue channel by 256: elevations are
\* multiples of 1/256 m
ElevUnit == 256
\* the divisor of Horn's kernel
HornDiv == 8

\* ------------------------------------------------------------ bounds
MaxFolders == 2
MaxRows == 2
MaxTile == 1

\* ------------------------------------------------------------ helpers
Abs(n) == IF n < 0 THEN -n ELSE n

Max2(a, b) == IF a >= b THEN a ELSE b

Pow2(i) == 2 ^ i

\* ------------------------------------------------------------ math.atan / math.atan2
\* atan(2^-i) in units of 1e-7 degree, i = 0 .. 27
AtanTable ==
  << 450000000, 265650512, 140362435, 71250163, 35763344, 17899106,
     8951737, 4476142, 2238105, 1119057, 559529, 279765, 139882, 69941,
     34971, 17485, 8743, 4371, 2186, 1093, 546, 273, 137, 68, 34, 17, 9, 4 >>

CordicSteps == Len(AtanTable)

\* the working magnitude the inputs are scaled to before the rotations
CordicScale == 2 ^ 28

\* Vectoring rotations: drives y to 0, accumulating the angle in z.
\* Returns <<magnitude (times the constant gain), angle>>.
RECURSIVE Cordic(_, _, _, _)
Cordic(x, y, z, i) ==
  IF i = CordicSteps THEN <<x, z>>
  ELSE IF y >= 0
       THEN Cordic(x + (y \div Pow2(i)), y - (x \div Pow2(i)), z + AtanTable[i + 1], i + 1)
       ELSE Cordic(x - (y \div Pow2(i)), y + (x \div Pow2(i)), z - AtanTable[i + 1], i + 1)

\* atan(y / x) for x > 0, y > 0, in 1e-7 degree
AtanRatio(y, x) ==
  LET S == CordicScale \div Max2(x, y)
  IN  Cordic(x * S, y * S, 0, 0)[2]

\* The sign-aware float the program hands to atan2.
Float(n) == [neg |-> n < 0, mag |-> Abs(n)]

\* FNeg with the negation left out: atan2(dzdy, dzdx)
FNegDropped(f) == f

\* unary minus on a float: flips the sign bit, also of a zero
FNeg(f) == [neg |-> ~f.neg, mag |-> f.mag]

\* math.atan2(y, x) in 1e-7 degree, in (-180, 180] degrees, with the IEEE
\* results on the axes: atan2(+-0, x) is +-0 for x > 0 or x = +0 and
\* +-180 for x < 0 or x = -0.
atan2(y, x) ==
  LET first == IF y.mag = 0 THEN 0
               ELSE IF x.mag = 0 THEN 900000000
               ELSE AtanRatio(y.mag, x.mag)
      unsigned == IF y.mag = 0
                  THEN (IF x.neg THEN 1800000000 ELSE 0)
                  ELSE IF x.mag = 0 THEN first
                  ELSE IF x.neg THEN 1800000000 - first ELSE first
  IN  IF y.neg THEN -unsigned ELSE unsigned

\* round(v, ndigits): the nearest multiple of `unit`, as a count of units
RoundTo(v, unit) == (v + unit \div 2) \div unit


\* ------------------------------------------------------------ inputs
\* Text of a CSV field: a sequence of chunks, " " being one space and every
\* other chunk a maximal run of non-space characters.
EmptyText == << >>

ObservedVals == { EmptyText, <<"2024-05-01">>, <<"05/01/2024">> }

CreatedVals == { <<"2024-05-02", " ", "10:00:00", " ", "UTC">>,
                 <<"05/02/2024", " ", "10:00">> }

\* The chunks datetime.strptime(_, "%Y-%m-%d") accepts.
IsoDates == { "2024-05-01", "2024-05-02" }

\* The latitude/longitude texts of a row: "" (float() raises), or the texts
\* of a point, named by the place latlon_to_pixel puts it.
PointVals == { "", "seam" }

RowSet == [observed_on : ObservedVals, created_at : CreatedVals, point : PointVals]

\* Entries of os.listdir(ROOT_OBSERVATIONS)
FolderKinds ==
  { [prefixed |-> FALSE, readme |-> TRUE,  csv |-> TRUE],
    [prefixed |-> TRUE,  readme |-> FALSE, csv |-> TRUE],
    [prefixed |-> TRUE,  readme |-> TRUE,  csv |-> FALSE],
    [prefixed |-> TRUE,  readme |-> TRUE,  csv |-> TRUE] }

SeqsUpTo(S, n) == UNION { [1..k -> S] : k \in 0..n }

\* ------------------------------------------------------------ state
VARIABLES
  nEntries,    \* number of entries of os.listdir(ROOT_OBSERVATIONS)
  listing,     \* the entries of os.listdir(ROOT_OBSERVATIONS) the folder loop has
               \* reached, in iteration order; the last one is the current folder
  status,      \* what became of each folder the loop is done with
  warned,      \* folders for which the missing-contents warning was printed
  pc,          \* position of the script
  rows,        \* rows of the current batch's CSV
  ri,          \* position of the row loop
  out,         \* lines written to the current batch's .ndjson
  log,         \* rows reported by the except clause ("Failed row")
  tile_cache,  \* the current batch's tile cache
  netGets,     \* remote tile requests issued against the current cache, per key
  netFails,    \* keys for which a remote tile request has failed
  date_str,    \* the row's date text
  px, py,      \* the row's global pixel
  grid,        \* the 3x3 grid under assembly
  src,         \* for each grid cell, the tile and pixel it was read from
  cell,        \* loop position of get_elevation_grid: cells done
  sa,          \* <<slope, aspect>> of the row
  stepsOk      \* per row of the batch: no step of it has failed

vars == << nEntries, listing, status, warned, pc, rows, ri, out, log, tile_cache,
           netGets, netFails, date_str, px, py, grid, src, cell, sa,
           stepsOk >>

folderVars == << nEntries, listing, status, warned >>

batchVars == << rows, ri, out, log, stepsOk >>

cacheVars == << tile_cache, netGets, netFails >>

rowVars == << date_str, px, py >>

gridVars == << grid, src, cell >>

\* ------------------------------------------------------------ README / date helpers
\* text.split(" ")[0]: the chunks before the first space
SplitFirst(text) ==
  LET spaces == { i \in 1..Len(text) : text[i] = " " }
  IN  IF spaces = {} THEN text
      ELSE SubSeq(text, 1, (CHOOSE i \in spaces : \A j \in spaces : i <= j) - 1)

\* SelectDate with the precedence reversed: created_at first
SelectDateCreatedFirst(row) ==
  IF SplitFirst(row.created_at) # EmptyText THEN SplitFirst(row.created_at) ELSE row.observed_on

\* row["observed_on"] or row["created_at"].split(" ")[0]
SelectDate(row) ==
  IF row.observed_on # EmptyText THEN row.observed_on ELSE SplitFirst(row.created_at)

\* datetime.strptime(text, "%Y-%m-%d") returns
Parseable(text) == Len(text) = 1 /\ text[1] \in IsoDates

\* float(row["latitude"]) and float(row["longitude"]) return
CoordsParse(row) == row.point # ""

\* ------------------------------------------------------------ terrain tiles
\* latlon_to_pixel at ZOOM_LEVEL for the point of the inputs: "seam" lies on
\* the north-west corner pixel of tile (1, 1), so that its neighbourhood
\* spans four tiles.
latlon_to_pixel(point) == <<TILE_SIZE, TILE_SIZE>>

\* TileKey without the row of the tile
TileKeyNoY(z, x, y) == <<z, x, x>>

\* key = (z, x, y)
TileKey(z, x, y) == <<z, x, y>>

AllKeys == { TileKey(ZOOM_LEVEL, x, y) : x \in -1..(MaxTile + 1), y \in -1..(MaxTile + 1) }

\* The image the terrain source serves at AWS_TERRAIN_URL.format(z, x, y).
RemoteTile(z, x, y) == [z |-> z, x |-> x, y |-> y]

\* tile.load()[x, y] of a served image: a fixed synthetic terrain, laid out
\* over the global pixel raster.
TilePixel(img, x, y) ==
  LET gx == img.x * TILE_SIZE + x
      gy == img.y * TILE_SIZE + y
  IN  << 128, (gx + 2 * gy) % 256, (5 * gx + 3 * gy) % 256 >>

\* (r * 256 + g + b / 256) - 32768, in 1/256 m
decode_terrarium(r, g, b) == (r * 256 + g) * ElevUnit + b - 32768 * ElevUnit

EmptyCache == [k \in {} |-> 0]

\* StoreTile that forgets to store
StoreTileDropped(cache, key, img) == cache

\* cache[key] = img
StoreTile(cache, key, img) == [k \in DOMAIN cache \cup {key} |-> IF k = key THEN img ELSE cache[k]]

\* WrapAxis that clamps to the edge of the centre tile
WrapAxisClamp(t, i, d) ==
  LET c == i + d
  IN  IF c < 0 THEN <<t, 0>> ELSE IF c >= TILE_SIZE THEN <<t, TILE_SIZE - 1>> ELSE <<t, c>>

\* One axis of the neighbour resolution of get_elevation_grid: tile index t,
\* in-tile coordinate i, offset d; the two ifs of the code in their order.
WrapAxis(t, i, d) ==
  LET c == i + d
      lo == IF c < 0 THEN <<t - 1, c + TILE_SIZE>> ELSE <<t, c>>
  IN  IF lo[2] >= TILE_SIZE THEN <<lo[1] + 1, lo[2] - TILE_SIZE>> ELSE lo

ZeroGrid == [r \in 0..2 |-> [c \in 0..2 |-> 0]]

NoSrc == [r \in 0..2 |-> [c \in 0..2 |-> << >>]]

\* loop variables of get_elevation_grid at the cell about to be filled
CellDy == (cell \div 3) - 1

CellDx == (cell % 3) - 1

CellX == WrapAxis(px \div TILE_SIZE, px % TILE_SIZE, CellDx)

CellY == WrapAxis(py \div TILE_SIZE, py % TILE_SIZE, CellDy)

\* the arguments of the fetch_tile call of that cell, and its cache key
CellTile == <<ZOOM_LEVEL, CellX[1], CellY[1]>>

CellKey == TileKey(CellTile[1], CellTile[2], CellTile[3])

\* ------------------------------------------------------------ slope / aspect
\* atan of the non-negative ratio m / r, in 1e-7 degree
AtanOfRatio(m, r) == IF m = 0 THEN 0 ELSE Cordic(r, m, 0, 0)[2]

\* calculate_slope_aspect(e) for elevations in 1/256 m:
\* <<slope in 1/100 degree, aspect in 1/10 degree>>
calculate_slope_aspect(e) ==
  LET nx == (e[0][2] + 2 * e[1][2] + e[2][2]) - (e[0][0] + 2 * e[1][0] + e[2][0])
      ny == (e[2][0] + 2 * e[2][1] + e[2][2]) - (e[0][0] + 2 * e[0][1] + e[0][2])
      \* dzdx = nx / den, dzdy = ny / den
      den == HornDiv * ElevUnit
      S == CordicScale \div Max2(Max2(Abs(nx), Abs(ny)), den)
      \* sqrt(dzdx**2 + dzdy**2) = hyp / ref
      hyp == Cordic(Abs(nx) * S, Abs(ny) * S, 0, 0)[1]
      ref == Cordic(den * S, 0, 0, 0)[1]
      slope == AtanOfRatio(hyp, ref)
      raw == atan2(Float(ny), FNeg(Float(nx))) \div 10
      aspect == IF raw < 0 THEN raw + 360000000 ELSE raw
  IN  << RoundTo(slope, 100000), RoundTo(aspect, 100000) >>

\* ------------------------------------------------------------ folder loop
Init ==
  /\ nEntries \in 0..MaxFolders
  /\ listing = << >>
  /\ status = << >>
  /\ warned = {}
  /\ pc = "folders"
  /\ rows = << >>
  /\ ri = 1
  /\ out = << >>
  /\ log = << >>
  /\ tile_cache = EmptyCache
  /\ netGets = [k \in AllKeys |-> 0]
  /\ netFails = {}
  /\ date_str = EmptyText
  /\ px = 0
  /\ py = 0
  /\ grid = ZeroGrid
  /\ src = NoSrc
  /\ cell = 0
  /\ sa = <<0, 0>>
  /\ stepsOk = << >>

\* The folder loop reaches one more entry of the listing.
NextEntry(f) ==
  /\ pc = "folders"
  /\ Len(listing) < nEntries
  /\ f \in FolderKinds
  /\ listing' = Append(listing, f)

\* if not folder.startswith("observations-"): continue
SkipOther ==
  /\ \E f \in FolderKinds : NextEntry(f) /\ ~f.prefixed
  /\ status' = Append(status, "ignored")
  /\ UNCHANGED << nEntries, warned, pc, batchVars, cacheVars, rowVars, gridVars, sa >>

\* SkipMissing with break in place of continue
SkipMissingBreak ==
  /\ \E f \in FolderKinds : NextEntry(f) /\ f.prefixed /\ ~(f.readme /\ f.csv)
  /\ warned' = warned \cup {Len(listing) + 1}
  /\ status' = Append(status, "skipped")
  /\ pc' = "done"
  /\ UNCHANGED << nEntries, batchVars, cacheVars, rowVars, gridVars, sa >>

\* README or CSV missing: print the warning, continue
SkipMissing ==
  /\ \E f \in FolderKinds : NextEntry(f) /\ f.prefixed /\ ~(f.readme /\ f.csv)
  /\ warned' = warned \cup {Len(listing) + 1}
  /\ status' = Append(status, "skipped")
  /\ UNCHANGED << nEntries, pc, batchVars, cacheVars, rowVars, gridVars, sa >>

\* parse_readme, tile_cache = {}, rows = list(csv.DictReader(f)), open the
\* .ndjson for writing
BeginBatch ==
  /\ \E f \in FolderKinds : NextEntry(f) /\ f.prefixed /\ f.readme /\ f.csv
  /\ \E rs \in SeqsUpTo(RowSet, MaxRows) :
       /\ rows' = rs
       /\ stepsOk' = [i \in 1..Len(rs) |-> TRUE]
  /\ ri' = 1
  /\ out' = << >>
  /\ log' = << >>
  /\ tile_cache' = EmptyCache
  /\ netGets' = [k \in AllKeys |-> 0]
  /\ netFails' = {}
  /\ pc' = "rows"
  /\ UNCHANGED << nEntries, status, warned, rowVars, gridVars, sa >>

\* the row loop is exhausted: shutil.move(folder_path, COMPLETED_ROOT/...)
\* The .ndjson leaves with the folder; rows, the cache and the counters of
\* the batch are dead from here on (BeginBatch assigns each of them anew).
MoveFolder ==
  /\ pc = "rows"
  /\ ri > Len(rows)
  /\ status' = Append(status, "completed")
  /\ pc' = "folders"
  /\ rows' = << >>
  /\ ri' = 1
  /\ out' = << >>
  /\ log' = << >>
  /\ stepsOk' = << >>
  /\ tile_cache' = EmptyCache
  /\ netGets' = [k \in AllKeys |-> 0]
  /\ netFails' = {}
  /\ UNCHANGED << nEntries, listing, warned, rowVars, gridVars, sa >>

\* the folder loop is exhausted: print "ALL OBSERVATIONS PROCESSED"
AllProcessed ==
  /\ pc = "folders"
  /\ Len(listing) = nEntries
  /\ pc' = "done"
  /\ UNCHANGED << folderVars, batchVars, cacheVars, rowVars, gridVars, sa >>

\* ------------------------------------------------------------ row loop
\* a step of the current row raises: control goes to the except clause
Raise ==
  /\ stepsOk' = [stepsOk EXCEPT ![ri] = FALSE]
  /\ pc' = "except"

\* lat, lon, date_str, obs_date (lines 220-223), all parsed
ParseRowOk ==
  /\ pc = "rows"
  /\ ri <= Len(rows)
  /\ CoordsParse(rows[ri])
  /\ Parseable(SelectDate(rows[ri]))
  /\ date_str' = SelectDate(rows[ri])
  /\ pc' = "elevation"
  /\ UNCHANGED << folderVars, batchVars, cacheVars, px, py, gridVars, sa >>

\* float() or strptime() raises ValueError
ParseRowFail ==
  /\ pc = "rows"
  /\ ri <= Len(rows)
  /\ ~(CoordsParse(rows[ri]) /\ Parseable(SelectDate(rows[ri])))
  /\ Raise
  /\ UNCHANGED << folderVars, rows, ri, out, log, cacheVars, rowVars, gridVars, sa >>

\* get_elevation returns
GetElevationOk ==
  /\ pc = "elevation"
  /\ pc' = "soil"
  /\ UNCHANGED << folderVars, batchVars, cacheVars, rowVars, gridVars, sa >>

\* get_elevation raises (requests error, raise_for_status)
GetElevationFail ==
  /\ pc = "elevation"
  /\ Raise
  /\ UNCHANGED << folderVars, rows, ri, out, log, cacheVars, rowVars, gridVars, sa >>

\* fetch_soil_data returns a JSON body; get_elevation_grid is entered: px, py
\* and the zero grid
FetchSoilOk ==
  /\ pc = "soil"
  /\ px' = latlon_to_pixel(rows[ri].point)[1]
  /\ py' = latlon_to_pixel(rows[ri].point)[2]
  /\ grid' = ZeroGrid
  /\ src' = NoSrc
  /\ cell' = 0
  /\ pc' = "grid"
  /\ UNCHANGED << folderVars, batchVars, cacheVars, date_str, sa >>

\* fetch_soil_data raises
FetchSoilFail ==
  /\ pc = "soil"
  /\ Raise
  /\ UNCHANGED << folderVars, rows, ri, out, log, cacheVars, rowVars, gridVars, sa >>

\* ------------------------------------------------------------ get_elevation_grid
\* the body of the loop after fetch_tile returned img
ReadCell(img) ==
  LET rgb == TilePixel(img, CellX[2], CellY[2])
  IN  /\ grid' = [grid EXCEPT ![CellDy + 1][CellDx + 1] = decode_terrarium(rgb[1], rgb[2], rgb[3])]
      /\ src' = [src EXCEPT ![CellDy + 1][CellDx + 1] = <<img.x, img.y, CellX[2], CellY[2]>>]
      /\ cell' = cell + 1
      /\ pc' = IF cell + 1 = 9 THEN "slope" ELSE "grid"

\* fetch_tile: key in cache
GridCellHit ==
  /\ pc = "grid"
  /\ cell < 9
  /\ CellKey \in DOMAIN tile_cache
  /\ ReadCell(tile_cache[CellKey])
  /\ UNCHANGED << folderVars, batchVars, cacheVars, rowVars, sa >>

\* fetch_tile: miss, the request and the decoding succeed, the image is stored
GridCellMiss ==
  /\ pc = "grid"
  /\ cell < 9
  /\ CellKey \notin DOMAIN tile_cache
  /\ netGets' = [netGets EXCEPT ![CellKey] = @ + 1]
  /\ tile_cache' = StoreTile(tile_cache, CellKey, RemoteTile(CellTile[1], CellTile[2], CellTile[3]))
  /\ ReadCell(RemoteTile(CellTile[1], CellTile[2], CellTile[3]))
  /\ UNCHANGED << folderVars, batchVars, netFails, rowVars, sa >>

\* GridCellFail that absorbs the failure and leaves the cell at its initial 0
GridCellFailAbsorbed ==
  /\ pc = "grid"
  /\ cell < 9
  /\ CellKey \notin DOMAIN tile_cache
  /\ netGets' = [netGets EXCEPT ![CellKey] = @ + 1]
  /\ netFails' = netFails \cup {CellKey}
  /\ cell' = cell + 1
  /\ pc' = IF cell + 1 = 9 THEN "slope" ELSE "grid"
  /\ UNCHANGED << folderVars, batchVars, tile_cache, rowVars, grid, src, sa >>

\* fetch_tile: miss, the request, raise_for_status or Image.open raises
GridCellFail ==
  /\ pc = "grid"
  /\ cell < 9
  /\ CellKey \notin DOMAIN tile_cache
  /\ netGets' = [netGets EXCEPT ![CellKey] = @ + 1]
  /\ netFails' = netFails \cup {CellKey}
  /\ Raise
  /\ UNCHANGED << folderVars, rows, ri, out, log, tile_cache, rowVars, gridVars, sa >>

\* ------------------------------------------------------------ record
\* slope, aspect = calculate_slope_aspect(grid)
ComputeSlope ==
  /\ pc = "slope"
  /\ sa' = calculate_slope_aspect(grid)
  /\ pc' = "record"
  /\ UNCHANGED << folderVars, batchVars, cacheVars, rowVars, gridVars >>

\* the record is built and fout.write(json.dumps(record) + "\n")
WriteRecord ==
  /\ pc = "record"
  /\ out' = Append(out, [ observation_url |-> ri,
                          date_used |-> date_str,
                          coordinates |-> rows[ri].point,
                          slope_deg |-> sa[1],
                          slope_aspect_deg |-> sa[2] ])
  /\ pc' = "after"
  /\ UNCHANGED << folderVars, rows, ri, log, stepsOk, cacheVars, rowVars, gridVars, sa >>

\* soil["daily"]["time"] raises KeyError while the record is built: the body
\* fetch_soil_data returned holds no daily series
RecordFail ==
  /\ pc = "record"
  /\ Raise
  /\ UNCHANGED << folderVars, rows, ri, out, log, cacheVars, rowVars, gridVars, sa >>

\* Except that gives up the rest of the batch
ExceptBreak ==
  /\ pc = "except"
  /\ log' = Append(log, ri)
  /\ ri' = Len(rows) + 1
  /\ pc' = "rows"
  /\ UNCHANGED << folderVars, rows, out, stepsOk, cacheVars, rowVars, gridVars, sa >>

\* except Exception as e: tqdm.write("Failed row")
Except ==
  /\ pc = "except"
  /\ log' = Append(log, ri)
  /\ pc' = "after"
  /\ UNCHANGED << folderVars, rows, ri, out, stepsOk, cacheVars, rowVars, gridVars, sa >>

\* The locals of one iteration of the row loop are dead once the iteration
\* ends: each is assigned in the next iteration before it is read.
ClearLocals ==
  /\ date_str' = EmptyText
  /\ px' = 0
  /\ py' = 0
  /\ grid' = ZeroGrid
  /\ src' = NoSrc
  /\ cell' = 0
  /\ sa' = <<0, 0>>

\* time.sleep(API_DELAY); pbar.update(1); next row
AfterRow ==
  /\ pc = "after"
  /\ ri' = ri + 1
  /\ pc' = "rows"
  /\ ClearLocals
  /\ UNCHANGED << folderVars, rows, out, log, stepsOk, cacheVars >>

Next ==
  \/ SkipOther
  \/ SkipMissing
  \/ BeginBatch
  \/ MoveFolder
  \/ AllProcessed
  \/ ParseRowOk
  \/ ParseRowFail
  \/ GetElevationOk
  \/ GetElevationFail
  \/ FetchSoilOk
  \/ FetchSoilFail
  \/ GridCellHit
  \/ GridCellMiss
  \/ GridCellFail
  \/ ComputeSlope
  \/ WriteRecord
  \/ RecordFail
  \/ Except
  \/ AfterRow

Spec == Init /\ [][Next]_vars

\* ------------------------------------------------------------ get_elevation_grid alone
\* Centre pixels: every column of the tiles 0..MaxTile, and the rows at and
\* next to the tile edges.
CentreXs == 0..((MaxTile + 1) * TILE_SIZE - 1)

CentreYs == { ty * TILE_SIZE + iy : ty \in 0..MaxTile, iy \in {0, 1, TILE_SIZE - 2, TILE_SIZE - 1} }

FullBatch == [prefixed |-> TRUE, readme |-> TRUE, csv |-> TRUE]

OneRow == [observed_on |-> <<"2024-05-01">>,
           created_at |-> <<"2024-05-02", " ", "10:00:00", " ", "UTC">>,
           point |-> "seam"]

\* the state of a one-row batch whose row has reached a step of the try block
InRow ==
  /\ nEntries = 1
  /\ listing = <<FullBatch>>
  /\ status = << >>
  /\ warned = {}
  /\ rows = <<OneRow>>
  /\ ri = 1
  /\ out = << >>
  /\ log = << >>
  /\ stepsOk = <<TRUE>>
  /\ date_str = <<"2024-05-01">>
  /\ sa = <<0, 0>>

\* get_elevation_grid is called with an empty cache
InitGrid ==
  /\ InRow
  /\ pc = "grid"
  /\ px \in CentreXs
  /\ py \in CentreYs
  /\ tile_cache = EmptyCache
  /\ netGets = [k \in AllKeys |-> 0]
  /\ netFails = {}
  /\ grid = ZeroGrid
  /\ src = NoSrc
  /\ cell = 0

NextGrid == GridCellHit \/ GridCellMiss \/ GridCellFail

SpecGrid == InitGrid /\ [][NextGrid]_vars

\* ------------------------------------------------------------ calculate_slope_aspect alone
\* elevations of the grids: -8 m, 8 m and 8 m + 1/256 m
ElevSet == { -8 * ElevUnit, 8 * ElevUnit, 8 * ElevUnit + 1 }

\* calculate_slope_aspect is called on a grid of these elevations
InitSlope ==
  /\ InRow
  /\ pc = "slope"
  /\ px = TILE_SIZE
  /\ py = TILE_SIZE
  /\ tile_cache = EmptyCache
  /\ netGets = [k \in AllKeys |-> 0]
  /\ netFails = {}
  /\ grid \in [0..2 -> [0..2 -> ElevSet]]
  /\ src = NoSrc
  /\ cell = 9

NextSlope == ComputeSlope

SpecSlope == InitSlope /\ [][NextSlope]_vars

\* ------------------------------------------------------------ properties
\* the global pixel of the k-th cell (row-major) of the grid under assembly
GlobalX(k) == px + (k % 3) - 1

GlobalY(k) == py + (k \div 3) - 1

\* the elevation the terrain source holds at a pixel of a tile
ElevationAt(tx, ty, x, y) ==
  LET rgb == TilePixel(RemoteTile(ZOOM_LEVEL, tx, ty), x, y)
  IN  decode_terrarium(rgb[1], rgb[2], rgb[3])

\* C1: every cell get_elevation_grid has filled, at offset (dx, dy) =
\* (k % 3 - 1, k \div 3 - 1), was read from the tile and in-tile pixel that
\* hold the global pixel (px + dx, py + dy): the tile is the floor quotient by
\* TILE_SIZE on each axis, the in-tile coordinate the remainder in
\* 0..TILE_SIZE-1, and the decoded value sits at grid[dy+1][dx+1].
C1_NeighbourIsGlobalPixel ==
  \A k \in 0..8 :
    k < cell =>
      LET r == k \div 3
          c == k % 3
      IN  /\ src[r][c] = << GlobalX(k) \div TILE_SIZE, GlobalY(k) \div TILE_SIZE,
                            GlobalX(k) % TILE_SIZE, GlobalY(k) % TILE_SIZE >>
          /\ src[r][c][3] \in 0..(TILE_SIZE - 1)
          /\ src[r][c][4] \in 0..(TILE_SIZE - 1)
          /\ grid[r][c] = ElevationAt(src[r][c][1], src[r][c][2], src[r][c][3], src[r][c][4])

\* a grid completed around the in-tile centre (0, 0): the west and the north
\* neighbours came from the tiles to the west and north, at TILE_SIZE-1
C1_Witness ==
  /\ pc = "slope"
  /\ px % TILE_SIZE = 0
  /\ py % TILE_SIZE = 0
  /\ src[1][0] = << (px \div TILE_SIZE) - 1, py \div TILE_SIZE, TILE_SIZE - 1, 0 >>
  /\ src[0][1] = << px \div TILE_SIZE, (py \div TILE_SIZE) - 1, 0, TILE_SIZE - 1 >>

\* C2: against one cache, a key none of whose remote requests failed has
\* been requested from the terrain source at most once, and exactly once
\* when the cache holds it; the lookups after the first are hits.
C2_OneFetchPerKey ==
  \A k \in AllKeys :
    k \notin netFails =>
      /\ netGets[k] <= 1
      /\ (netGets[k] = 1 <=> k \in DOMAIN tile_cache)

\* the second observation of a batch has its grid, the first one had its own:
\* eighteen lookups of four tiles, each tile requested once
C2_Witness ==
  /\ pc = "slope"
  /\ ri = 2
  /\ Len(out) = 1
  /\ netFails = {}
  /\ Cardinality(DOMAIN tile_cache) = 4
  /\ \A k \in DOMAIN tile_cache : netGets[k] = 1

\* C3: the tile stored under a key is the tile the terrain source serves for
\* that key, the tile a lookup returned is the one of the tile coordinates
\* asked for, and within a batch a stored entry is neither replaced nor
\* removed.
C3_CacheHoldsOwnTile ==
  /\ [](\A k \in DOMAIN tile_cache : tile_cache[k] = RemoteTile(k[1], k[2], k[3]))
  /\ [](\A i \in 0..8 :
          i < cell => /\ src[i \div 3][i % 3][1] = GlobalX(i) \div TILE_SIZE
                      /\ src[i \div 3][i % 3][2] = GlobalY(i) \div TILE_SIZE)
  /\ [][ \/ pc = "folders"
         \/ pc' = "folders"
         \/ \A k \in DOMAIN tile_cache :
              k \in DOMAIN tile_cache' /\ tile_cache'[k] = tile_cache[k] ]_vars

\* the third lookup of a grid at the seam was a hit on the tile stored by the
\* second
C3_Witness ==
  /\ pc = "grid"
  /\ cell = 3
  /\ Cardinality(DOMAIN tile_cache) = 2
  /\ src[0][2][1] = 1
  /\ src[0][2][2] = 0
  /\ netGets[TileKey(ZOOM_LEVEL, 1, 0)] = 1

UpTo(n) == [i \in 1..n |-> i]

OkRow(i) == stepsOk[i]

BadRow(i) == ~stepsOk[i]

OutUrls == [j \in 1..Len(out) |-> out[j].observation_url]

\* C4: between two rows and at the end of the row loop, the output holds one
\* record for each row done whose steps all succeeded, in input order, the
\* failed rows were reported, and the loop ends only past the last row.
C4_OneRecordPerGoodRow ==
  pc = "rows" =>
    /\ ri <= Len(rows) + 1
    /\ OutUrls = SelectSeq(UpTo(ri - 1), OkRow)
    /\ log = SelectSeq(UpTo(ri - 1), BadRow)

\* the first of two rows failed, the second was written, the loop is over
C4_Witness ==
  /\ pc = "rows"
  /\ Len(rows) = 2
  /\ ri = 3
  /\ ~stepsOk[1]
  /\ Len(out) = 1
  /\ out[1].observation_url = 2

\* C5: a grid that get_elevation_grid returned has its 9 cells set from
\* decoded pixels; a remote tile request that fails stores nothing, raises
\* into the except clause and writes nothing; no record is of a failed row.
C5_FetchFailurePropagates ==
  /\ [](pc \in {"slope", "record"} =>
          /\ cell = 9
          /\ \A r \in 0..2, c \in 0..2 :
               /\ src[r][c] # << >>
               /\ grid[r][c] = ElevationAt(src[r][c][1], src[r][c][2], src[r][c][3], src[r][c][4]))
  /\ [](\A j \in 1..Len(out) : stepsOk[out[j].observation_url])
  /\ [][ (\E k \in netFails' : k \notin netFails) =>
           /\ tile_cache' = tile_cache
           /\ pc' = "except"
           /\ out' = out
           /\ sa' = sa ]_vars

\* a tile request failed in the middle of a grid
C5_Witness ==
  /\ pc = "except"
  /\ cell > 0
  /\ cell < 9
  /\ CellKey \in netFails
  /\ CellKey \notin DOMAIN tile_cache
  /\ ~stepsOk[ri]

IsFlat(e) == \A r \in 0..2, c \in 0..2 : e[r][c] = e[0][0]

\* east column +8 m, west column -8 m, the middle column equal across rows
IsEastSlope(e) ==
  /\ \A r \in 0..2 : e[r][2] = 8 * ElevUnit /\ e[r][0] = -8 * ElevUnit
  /\ e[0][1] = e[1][1]
  /\ e[1][1] = e[2][1]

\* C6: a flat grid yields slope 0.0 and aspect 0.0.
C6_FlatGridZero ==
  (pc = "record" /\ IsFlat(grid)) => sa = <<0, 0>>

C8_AspectBelow360 ==
  pc = "record" => (sa[1] >= 0 /\ sa[2] >= 0 /\ sa[2] < 3600)

\* the chunks of a text before its first space
BeforeSpace(text) ==
  LET n == CHOOSE m \in 1..(Len(text) + 1) :
             /\ (m <= Len(text) => text[m] = " ")
             /\ \A i \in 1..(m - 1) : text[i] # " "
  IN  [i \in 1..(n - 1) |-> text[i]]

\* observed_on when it is non-empty, otherwise the date portion of created_at
DateChoice(row) ==
  IF Len(row.observed_on) > 0 THEN row.observed_on ELSE BeforeSpace(row.created_at)

\* the current row failed at its date: its coordinates parsed, no date was set
DateStepFailed ==
  /\ pc = "except"
  /\ rows[ri].point # ""
  /\ date_str = EmptyText

\* the date chosen for every row past its parsing step, and for every record
DatesAsChosen ==
  /\ \A j \in 1..Len(out) :
       /\ out[j].date_used = DateChoice(rows[out[j].observation_url])
       /\ Parseable(out[j].date_used)
  /\ pc \in {"elevation", "soil", "grid", "slope", "record"} =>
       /\ date_str = DateChoice(rows[ri])
       /\ Parseable(date_str)

\* C9 as stated: the date used is observed_on when non-empty, otherwise the
\* date portion of created_at, date_used is the string parsed, and a row
\* fails at its date only if neither observed_on nor the date portion of
\* created_at is a parseable date.
C9_FailsOnlyIfNeitherParses ==
  /\ DatesAsChosen
  /\ DateStepFailed =>
       /\ ~Parseable(rows[ri].observed_on)
       /\ ~Parseable(BeforeSpace(rows[ri].created_at))

\* C9, amended: the date used is observed_on when non-empty, otherwise the
\* date portion of created_at, date_used is the string parsed, and a row
\* fails at its date exactly when that one chosen string is not a parseable
\* date.
C9_FailsIffChosenUnparseable ==
  /\ DatesAsChosen
  /\ DateStepFailed => ~Parseable(DateChoice(rows[ri]))
  /\ \A i \in 1..Len(rows) :
       (i < ri /\ ~Parseable(DateChoice(rows[i]))) => ~stepsOk[i]

\* a row failed on a non-empty unparseable observed_on although its
\* created_at holds a parseable date
C9_Witness ==
  /\ DateStepFailed
  /\ rows[ri].observed_on # EmptyText
  /\ ~Parseable(rows[ri].observed_on)
  /\ Parseable(BeforeSpace(rows[ri].created_at))

=============================================================================
